---- MODULE Spec2Model ----
(***************************************************************************)
(* Webhook / workflow invocation flow of the Obsidian chat client:         *)
(*   - the webhook API client   (src/lib/apis/webhooks/index.ts 54-201)    *)
(*   - the workflow form modal  (same file, 825-1155)                      *)
(* JavaScript values are modelled as tagged records so that truthiness,    *)
(* `||`, `typeof` and optional chaining behave as they do in the source.   *)
(***************************************************************************)
EXTENDS Integers, Sequences, FiniteSets, TLC

VARIABLES
    api,            \* API client: the call being made, its fetch outcome, its promise
    show,           \* form modal: `export let show`
    formFields,     \* form modal: `export let formFields`
    chatId,         \* form modal: `export let chatId`
    formData,       \* form modal: `let formData`
    fileData,       \* form modal: `let fileData`
    errors,         \* form modal: `let errors`
    loading,        \* form modal: `let loading`
    hasFileFields,  \* form modal: `$: hasFileFields`
    inflight,       \* form modal: the invocations awaited (the client function of each)
    effects,        \* what the last handler did outside the component state
    detached,       \* form modal: the modal was closed since a pending submission was sent
    menu,           \* workflow menu: its state, pending requests and last handler
    view,           \* response view: its data prop, reactive values and markup
    palette         \* slash-command palette: its props, cursor and last handler

vars == <<api, show, formFields, chatId, formData, fileData, errors, loading,
          hasFileFields, inflight, effects, detached, menu, view, palette>>

modalVars == <<show, formFields, chatId, formData, fileData, errors, loading,
                    hasFileFields, inflight, effects, detached>>

formVars == <<show, formFields, chatId, formData, fileData, errors, loading,
              hasFileFields, inflight, effects, detached, menu, view, palette>>

(***************************************************************************)
(* JavaScript values that cross the HTTP boundary.                         *)
(***************************************************************************)
Undefined == [t |-> "undefined", s |-> ""]
Null == [t |-> "null", s |-> ""]
Str(x) == [t |-> "string", s |-> x]
Obj(x) == [t |-> "object", s |-> x]
True == [t |-> "boolean", s |-> "true"]
False == [t |-> "boolean", s |-> "false"]

\* ToBoolean
Truthy(v) ==
    CASE v.t \in {"undefined", "null"} -> FALSE
      [] v.t = "string" -> v.s # ""
      [] v.t = "boolean" -> v.s = "true"
      [] OTHER -> TRUE

\* a || b
Or(a, b) == IF Truthy(a) THEN a ELSE b

(***************************************************************************)
(* Response bodies.  `json` is what res.json() yields: "invalid" when the  *)
(* body is not JSON (res.json() rejects with a SyntaxError), otherwise the *)
(* parsed value.  Fields a body does not carry are Undefined.              *)
(***************************************************************************)
Body(json, detail, message, success, enabled, items) ==
    [json |-> json, detail |-> detail, message |-> message,
     success |-> success, enabled |-> enabled, items |-> items]

InvalidBody == Body("invalid", Undefined, Undefined, Undefined, Undefined, <<>>)
NullBody == Body("null", Undefined, Undefined, Undefined, Undefined, <<>>)
ArrayBody(items) == Body("array", Undefined, Undefined, Undefined, Undefined, items)

\* Error bodies: the backend answers {detail: ...}; a detail may be missing,
\* empty, a string, or structured (a validation error list).
DetailValues == {Undefined, Str(""), Str("bad input"), Obj("[{loc,msg}]")}
MessageValues == {Undefined, Str("msg")}
ErrorBodies ==
    {Body("object", d, m, Undefined, Undefined, <<>>) :
        d \in DetailValues, m \in MessageValues}
        \cup {InvalidBody}

\* WebhookResponse bodies (index.ts 33-39).
ResponseMessages == {Undefined, Str(""), Str("ok")}
ResponseBodies ==
    {Body("object", Undefined, m, sc, Undefined, <<>>) :
        m \in ResponseMessages, sc \in {True, False}}

\* WebhookConfig bodies (index.ts 21-28).
ConfigBodies ==
    {Body("object", Undefined, Undefined, Undefined, en, <<>>) : en \in {True, False}}

\* WebhookModel[] bodies (index.ts 44-49).
ModelListBodies == {ArrayBody(<<>>), ArrayBody(<<"m1">>), ArrayBody(<<"m1", "m2">>)}

SuccessBodies ==
    ResponseBodies \cup ConfigBodies \cup ModelListBodies \cup {NullBody, InvalidBody}

(***************************************************************************)
(* Outcomes of fetch(): a network-level rejection, or a Response with a    *)
(* status and a body.                                                      *)
(***************************************************************************)
ErrorStatuses == {400, 500}

NetworkError == [net |-> TRUE, status |-> 0, body |-> InvalidBody]
HttpResponse(status, body) == [net |-> FALSE, status |-> status, body |-> body]

FetchOutcomes ==
    {NetworkError}
        \cup {HttpResponse(st, b) : st \in ErrorStatuses, b \in ErrorBodies}
        \cup {HttpResponse(200, b) : b \in SuccessBodies}

\* Response.ok
ResOk(o) == ~o.net /\ o.status >= 200 /\ o.status <= 299

(***************************************************************************)
(* The promise chain every client function shares (index.ts 65-68):        *)
(*     .then(async (res) => { if (!res.ok) throw await res.json();         *)
(*                            return res.json(); })                        *)
(* ThenThrows(o): the chain reaches .catch; Caught(o): the value caught.   *)
(***************************************************************************)
JsError(message) == [detail |-> Undefined, message |-> Str(message)]

ThenThrows(o) == o.net \/ ~ResOk(o) \/ o.body.json = "invalid"

Caught(o) ==
    IF o.net THEN JsError("Failed to fetch")
    ELSE IF o.body.json = "invalid" THEN JsError("Unexpected token")
    ELSE [detail |-> o.body.detail, message |-> o.body.message]

\* A settled promise.
Fulfilled(v) == [state |-> "fulfilled", value |-> v, reason |-> Undefined]
Rejected(r) == [state |-> "rejected", value |-> NullBody, reason |-> r]

\* index.ts 54-80
getWebhookConfig(o) ==
    LET error == IF ThenThrows(o) THEN Caught(o).detail ELSE Null
        res == IF ThenThrows(o) THEN NullBody ELSE o.body
    IN  IF Truthy(error) THEN Rejected(error) ELSE Fulfilled(res)

\* invokeWebhook preferring the error's message to the server's detail.
invokeWebhookMessageFirst(o) ==
    LET error == IF ThenThrows(o)
                 THEN Or(Caught(o).message, Or(Caught(o).detail, Str("Unknown error")))
                 ELSE Null
        res == IF ThenThrows(o) THEN NullBody ELSE o.body
    IN  IF Truthy(error) THEN Rejected(error) ELSE Fulfilled(res)

\* index.ts 85-121
invokeWebhook(o) ==
    LET error == IF ThenThrows(o)
                 THEN Or(Caught(o).detail, Or(Caught(o).message, Str("Unknown error")))
                 ELSE Null
        res == IF ThenThrows(o) THEN NullBody ELSE o.body
    IN  IF Truthy(error) THEN Rejected(error) ELSE Fulfilled(res)

\* index.ts 126-170
invokeWebhookWithFiles(o) ==
    LET error == IF ThenThrows(o)
                 THEN Or(Caught(o).detail, Or(Caught(o).message, Str("Unknown error")))
                 ELSE Null
        res == IF ThenThrows(o) THEN NullBody ELSE o.body
    IN  IF Truthy(error) THEN Rejected(error) ELSE Fulfilled(res)

\* index.ts 175-201
getWebhookEnabledModels(o) ==
    LET error == IF ThenThrows(o) THEN Caught(o).detail ELSE Null
        res == IF ThenThrows(o) THEN ArrayBody(<<>>) ELSE o.body
    IN  IF Truthy(error) THEN Rejected(error) ELSE Fulfilled(res)


(***************************************************************************)
(* API client as a state machine: a caller invokes one of the four client  *)
(* functions, which issues its single fetch; the fetch settles with some   *)
(* outcome and the function's promise settles accordingly.                 *)
(***************************************************************************)
ApiIdle ==
    [fn |-> "none", phase |-> "idle", requests |-> 0,
     outcome |-> NetworkError, result |-> Fulfilled(NullBody)]

ApiPending(fn) ==
    [fn |-> fn, phase |-> "pending", requests |-> 1,
     outcome |-> NetworkError, result |-> Fulfilled(NullBody)]

\* The promise a client function returns once its fetch has settled with o.
ApiResult(fn, o) ==
    CASE fn = "getWebhookConfig" -> getWebhookConfig(o)
      [] fn = "invokeWebhook" -> invokeWebhook(o)
      [] fn = "invokeWebhookWithFiles" -> invokeWebhookWithFiles(o)
      [] fn = "getWebhookEnabledModels" -> getWebhookEnabledModels(o)

CallGetWebhookConfig ==
    /\ api.phase # "pending"
    /\ api' = ApiPending("getWebhookConfig")
    /\ UNCHANGED formVars

CallInvokeWebhook ==
    /\ api.phase # "pending"
    /\ api' = ApiPending("invokeWebhook")
    /\ UNCHANGED formVars

CallInvokeWebhookWithFiles ==
    /\ api.phase # "pending"
    /\ api' = ApiPending("invokeWebhookWithFiles")
    /\ UNCHANGED formVars

CallGetWebhookEnabledModels ==
    /\ api.phase # "pending"
    /\ api' = ApiPending("getWebhookEnabledModels")
    /\ UNCHANGED formVars

FetchSettles ==
    /\ api.phase = "pending"
    /\ \E o \in FetchOutcomes :
          api' = [api EXCEPT !.phase = "settled", !.outcome = o,
                             !.result = ApiResult(api.fn, o)]
    /\ UNCHANGED formVars

(***************************************************************************)
(* Form modal (index.ts 825-1155).                                         *)
(*                                                                         *)
(* Values held by the form.  Text is a sequence of characters so that      *)
(* String.prototype.trim is computed, not assumed.  A text-like input      *)
(* binds a string; Svelte's bind:value on <input type="number"> stores a   *)
(* number, or null when the input is empty.                                *)
(***************************************************************************)
MaxTextLen == 1
MaxFields == 2
MaxFiles == 2
MaxInflight == 2

Chars == {" ", "5"}
Texts == UNION {[1..n -> Chars] : n \in 0..MaxTextLen}

FUndef == [t |-> "undefined", s |-> <<>>]
FNull == [t |-> "null", s |-> <<>>]
FStr(cs) == [t |-> "string", s |-> cs]
FNum(cs) == [t |-> "number", s |-> cs]

RECURSIVE TrimStart(_)
TrimStart(cs) ==
    IF cs # <<>> /\ Head(cs) = " " THEN TrimStart(Tail(cs)) ELSE cs

RECURSIVE TrimEnd(_)
TrimEnd(cs) ==
    IF cs # <<>> /\ cs[Len(cs)] = " " THEN TrimEnd(SubSeq(cs, 1, Len(cs) - 1)) ELSE cs

\* String.prototype.trim
Trim(cs) == TrimEnd(TrimStart(cs))

\* What bind:value stores for <input type="number"> holding the text cs: the
\* browser keeps only a valid number as the input's value, and Svelte stores
\* null for the empty value and the number otherwise.
NumberInputValue(cs) ==
    IF cs = <<>> \/ \E i \in 1..Len(cs) : cs[i] = " " THEN FNull ELSE FNum(cs)

(***************************************************************************)
(* JavaScript objects used as maps (formData, fileData, errors): a list of *)
(* <<key, value>> in property order.                                       *)
(***************************************************************************)
\* The array index a property key denotes, -1 when it denotes none.
KeyIndex(key) ==
    CASE key = "0" -> 0
      [] key = "1" -> 1
      [] key = "2" -> 2
      [] OTHER -> -1

Keys(m) == {m[i][1] : i \in 1..Len(m)}
Has(m, k) == k \in Keys(m)
Get(m, k, absent) ==
    IF Has(m, k) THEN m[CHOOSE i \in 1..Len(m) : m[i][1] = k][2] ELSE absent

\* m[k] = v.  A new key that is integer-like takes its place among the
\* integer-like keys, which an object enumerates first and ascending; any
\* other new key comes last.
Put(m, k, v) ==
    IF Has(m, k)
    THEN [i \in 1..Len(m) |-> IF m[i][1] = k THEN <<k, v>> ELSE m[i]]
    ELSE IF KeyIndex(k) < 0
    THEN Append(m, <<k, v>>)
    ELSE LET Before(e) == KeyIndex(e[1]) >= 0 /\ KeyIndex(e[1]) < KeyIndex(k)
             After(e) == ~Before(e)
         IN  SelectSeq(m, Before) \o <<<<k, v>>>> \o SelectSeq(m, After)

(***************************************************************************)
(* Field schemas (WebhookFormField, index.ts 6-16).  A schema is a list of *)
(* distinct fields of the catalogue below, so names are unique within a    *)
(* form; the catalogue has every field type, required and optional fields, *)
(* fields with and without a default, single and multiple file fields.     *)
(***************************************************************************)
FileNames == {"a.pdf", "b.pdf"}

Field(name, label, type, required, default, multiple) ==
    [name |-> name, label |-> label, type |-> type,
     required |-> required, default |-> default, multiple |-> multiple]

Catalogue ==
    {Field("x", "X", "text", TRUE, FUndef, FALSE),
     Field("qty", "Quantity", "number", TRUE, FUndef, FALSE),
     Field("max", "Maximum", "number", FALSE, FStr(<<"5">>), FALSE),
     Field("day", "Day", "date", FALSE, FStr(<<"5">>), FALSE),
     Field("kind", "Kind", "select", TRUE, FStr(<<"5">>), FALSE),
     Field("note", "Note", "textarea", FALSE, FUndef, FALSE),
     Field("doc", "Document", "file", TRUE, FUndef, TRUE),
     Field("2", "Picture", "file", FALSE, FUndef, FALSE)}

RECURSIVE SchemasOfLen(_)
SchemasOfLen(n) ==
    IF n = 0 THEN {<<>>}
    ELSE {Append(sch, f) : sch \in SchemasOfLen(n - 1), f \in Catalogue}

Distinct(sch) == \A i, j \in 1..Len(sch) : i # j => sch[i].name # sch[j].name

Schemas == {sch \in UNION {SchemasOfLen(n) : n \in 0..MaxFields} : Distinct(sch)}

(***************************************************************************)
(* Reactive statements (index.ts 849-864).                                 *)
(***************************************************************************)
\* $: hasFileFields = formFields.some((f) => f.type === 'file');
HasFileFields(fields) == \E i \in 1..Len(fields) : fields[i].type = "file"

\* field.default || ''
DefaultOrEmpty(field) ==
    IF field.default.t = "string" /\ field.default.s # <<>>
    THEN field.default ELSE FStr(<<>>)

\* The for loop of the initialisation block, from field i on.
RECURSIVE InitLoop(_, _, _)
InitLoop(fields, i, st) ==
    IF i > Len(fields) THEN st
    ELSE LET field == fields[i] IN
         IF field.type = "file"
         THEN InitLoop(fields, i + 1,
                       [st EXCEPT !.fileData = Put(@, field.name, <<>>)])
         ELSE InitLoop(fields, i + 1,
                       [st EXCEPT !.formData = Put(@, field.name, DefaultOrEmpty(field))])

\* An initialisation block that leaves the error map as it was.
InitFormKeepingErrors(fields, st) ==
    InitLoop(fields, 1, [st EXCEPT !.formData = <<>>, !.fileData = <<>>])

\* $: if (show && formFields) { formData = {}; fileData = {}; errors = {}; for ... }
\* The block depends on show and formFields and runs when either was
\* invalidated; st is the state it leaves.
InitForm(fields, st) ==
    InitLoop(fields, 1, [st EXCEPT !.formData = <<>>, !.fileData = <<>>, !.errors = <<>>])

FormState == [formData |-> formData, fileData |-> fileData, errors |-> errors]

\* The component update after show or formFields was assigned.
Reactive(newShow, newFields) ==
    LET st == IF newShow THEN InitForm(newFields, FormState) ELSE FormState
    IN  /\ hasFileFields' = HasFileFields(newFields)
        /\ formData' = st.formData
        /\ fileData' = st.fileData
        /\ errors' = st.errors

(***************************************************************************)
(* validateForm (index.ts 866-885).  `formData[field.name]?.trim()` calls  *)
(* trim on whatever non-nullish value the field holds: on a number it      *)
(* throws a TypeError, which leaves validateForm with the errors it had    *)
(* assigned so far.                                                        *)
(***************************************************************************)
RequiredMessage(field) == field.label \o " is required"

RECURSIVE ValidateLoop(_, _, _, _, _)
ValidateLoop(fields, i, fd, fl, acc) ==
    IF i > Len(fields) THEN acc
    ELSE LET field == fields[i]
             failed == [acc EXCEPT !.errors = Put(@, field.name, RequiredMessage(field)),
                                   !.isValid = FALSE]
         IN  IF ~field.required THEN ValidateLoop(fields, i + 1, fd, fl, acc)
             ELSE IF field.type = "file"
             THEN IF ~Has(fl, field.name) \/ Len(Get(fl, field.name, <<>>)) = 0
                  THEN ValidateLoop(fields, i + 1, fd, fl, failed)
                  ELSE ValidateLoop(fields, i + 1, fd, fl, acc)
             ELSE LET v == Get(fd, field.name, FUndef) IN
                  CASE v.t \in {"undefined", "null"} ->
                         ValidateLoop(fields, i + 1, fd, fl, failed)
                    [] v.t = "string" ->
                         IF Trim(v.s) = <<>>
                         THEN ValidateLoop(fields, i + 1, fd, fl, failed)
                         ELSE ValidateLoop(fields, i + 1, fd, fl, acc)
                    [] OTHER -> [acc EXCEPT !.threw = TRUE]

\* A validation that lets every form through.
validateFormPassing(fields, fd, fl) ==
    [errors |-> <<>>, isValid |-> TRUE, threw |-> FALSE]

validateForm(fields, fd, fl) ==
    ValidateLoop(fields, 1, fd, fl, [errors |-> <<>>, isValid |-> TRUE, threw |-> FALSE])

(***************************************************************************)
(* What a handler does outside the component state: network requests,      *)
(* dispatched events, toasts, and exceptions nobody catches.  `effects`    *)
(* holds the last handler run: its name, what it emitted in order, and     *)
(* (for a settlement) the promise it resumed on.                           *)
(***************************************************************************)
Effect(kind, name, body, text) ==
    [kind |-> kind, name |-> name, body |-> body, text |-> text]

FetchEffect(req) ==
    [kind |-> "fetch", name |-> req.api, body |-> NullBody, text |-> Undefined, req |-> req]
DispatchEffect(name, body) == Effect("dispatch", name, body, Undefined)
ToastSuccess(text) == Effect("toast.success", "", NullBody, text)
ToastError(text) == Effect("toast.error", "", NullBody, text)
Uncaught(name) == Effect("uncaught", name, NullBody, Undefined)

Ran(op, out, result, prior) ==
    [op |-> op, out |-> out, result |-> result, prior |-> prior]

NoResult == Fulfilled(NullBody)

\* index.ts 923-926: for (const fieldName in fileData) allFiles.push(...)
RECURSIVE AllFiles(_, _)
AllFiles(fl, i) ==
    IF i > Len(fl) THEN <<>> ELSE fl[i][2] \o AllFiles(fl, i + 1)

\* Request choosing the multipart path only when some file is selected.
RequestByFilePresence(hasFiles, fd, fl, cid) ==
    IF AllFiles(fl, 1) # <<>>
    THEN [api |-> "invokeWebhookWithFiles", formData |-> fd,
          files |-> AllFiles(fl, 1), chatId |-> Or(cid, Undefined)]
    ELSE [api |-> "invokeWebhook", formData |-> fd,
          files |-> <<>>, chatId |-> Or(cid, Undefined)]

\* The invocation handleSubmit makes (index.ts 921-942).
Request(hasFiles, fd, fl, cid) ==
    IF hasFiles
    THEN [api |-> "invokeWebhookWithFiles", formData |-> fd,
          files |-> AllFiles(fl, 1), chatId |-> Or(cid, Undefined)]
    ELSE [api |-> "invokeWebhook", formData |-> fd,
          files |-> <<>>, chatId |-> Or(cid, Undefined)]

\* A submit control that stays enabled while a submission is pending.
SubmitEnabledWhileLoading == show

\* The submit button is disabled={loading} (index.ts 1136-1138), and a form
\* whose default button is disabled is not submitted implicitly either; the
\* form exists only while the modal shows it.
SubmitEnabled == show /\ ~loading

\* handleSubmit up to its await (index.ts 911-942).
Submit ==
    /\ SubmitEnabled
    /\ Len(inflight) < MaxInflight
    /\ LET v == validateForm(formFields, formData, fileData)
           req == Request(hasFileFields, formData, fileData, chatId)
       IN  /\ errors' = v.errors
           /\ IF v.threw
              THEN /\ effects' = Ran("submit", <<Uncaught("TypeError")>>, NoResult, FALSE)
                   /\ UNCHANGED <<loading, inflight>>
              ELSE IF ~v.isValid
              THEN /\ effects' = Ran("submit", <<>>, NoResult, FALSE)
                   /\ UNCHANGED <<loading, inflight>>
              ELSE /\ loading' = TRUE
                   /\ inflight' = Append(inflight, req.api)
                   /\ effects' = Ran("submit", <<FetchEffect(req)>>, NoResult, FALSE)
    /\ UNCHANGED <<api, menu, view, palette, show, formFields, chatId, formData,
                   fileData, hasFileFields, detached>>

\* A continuation that leaves the modal open after a successful response.
HandleResultStayingOpen(result) ==
    IF result.state = "rejected"
    THEN [close |-> FALSE,
          out |-> <<ToastError(IF result.reason.t = "string" THEN result.reason
                               ELSE Str("Failed to execute workflow"))>>]
    ELSE LET response == result.value IN
         IF response.json = "null"
         THEN [close |-> FALSE, out |-> <<ToastError(Str("Failed to execute workflow"))>>]
         ELSE IF Truthy(response.success)
         THEN [close |-> FALSE,
               out |-> <<DispatchEffect("success", response),
                         ToastSuccess(Or(response.message,
                                         Str("Workflow executed successfully")))>>]
         ELSE [close |-> FALSE,
               out |-> <<ToastError(Or(response.message, Str("Workflow failed")))>>]

\* A continuation that closes the modal whatever the response says.
HandleResultClosingAlways(result) ==
    IF result.state = "rejected"
    THEN [close |-> FALSE,
          out |-> <<ToastError(IF result.reason.t = "string" THEN result.reason
                               ELSE Str("Failed to execute workflow"))>>]
    ELSE LET response == result.value IN
         IF response.json = "null"
         THEN [close |-> FALSE, out |-> <<ToastError(Str("Failed to execute workflow"))>>]
         ELSE IF Truthy(response.success)
         THEN [close |-> TRUE,
               out |-> <<DispatchEffect("success", response),
                         ToastSuccess(Or(response.message,
                                         Str("Workflow executed successfully")))>>]
         ELSE [close |-> TRUE,
               out |-> <<ToastError(Or(response.message, Str("Workflow failed")))>>]

\* A continuation that sends the invocation again when it failed.
HandleResultRetrying(result) ==
    LET again == FetchEffect(Request(hasFileFields, formData, fileData, chatId))
    IN  IF result.state = "rejected"
        THEN [close |-> FALSE,
              out |-> <<ToastError(IF result.reason.t = "string" THEN result.reason
                                   ELSE Str("Failed to execute workflow")),
                        again>>]
        ELSE LET response == result.value IN
             IF response.json = "null"
             THEN [close |-> FALSE,
                   out |-> <<ToastError(Str("Failed to execute workflow")), again>>]
             ELSE IF Truthy(response.success)
             THEN [close |-> TRUE,
                   out |-> <<DispatchEffect("success", response),
                             ToastSuccess(Or(response.message,
                                             Str("Workflow executed successfully")))>>]
             ELSE [close |-> FALSE,
                   out |-> <<ToastError(Or(response.message, Str("Workflow failed"))),
                             again>>]

\* handleSubmit after its await, on the settled invocation (index.ts 944-956):
\* what it emits and whether it closes the modal.
HandleResult(result) ==
    IF result.state = "rejected"
    THEN [close |-> FALSE,
          out |-> <<ToastError(IF result.reason.t = "string" THEN result.reason
                               ELSE Str("Failed to execute workflow"))>>]
    ELSE LET response == result.value IN
         IF response.json = "null"
         THEN [close |-> FALSE, out |-> <<ToastError(Str("Failed to execute workflow"))>>]
         ELSE IF Truthy(response.success)
         THEN [close |-> TRUE,
               out |-> <<DispatchEffect("success", response),
                         ToastSuccess(Or(response.message,
                                         Str("Workflow executed successfully")))>>]
         ELSE [close |-> FALSE,
               out |-> <<ToastError(Or(response.message, Str("Workflow failed")))>>]

\* Responses the invoke endpoints can produce.
InvokeOutcomes ==
    {NetworkError}
        \cup {HttpResponse(st, b) : st \in ErrorStatuses, b \in ErrorBodies}
        \cup {HttpResponse(200, b) : b \in ResponseBodies \cup {NullBody, InvalidBody}}

RemoveAt(seq, k) == SubSeq(seq, 1, k - 1) \o SubSeq(seq, k + 1, Len(seq))

\* A finally block that clears loading only after a response that closes
\* the modal.
LoadingFinallyOnSuccess(h) == ~h.close

\* finally { loading = false } (index.ts 954-956): loading once the
\* continuation h has run, whatever it did.
LoadingFinally(h) == FALSE

\* The fetch of request k settles and its handleSubmit resumes.
Settle ==
    \E k \in 1..Len(inflight), o \in InvokeOutcomes :
        LET result == ApiResult(inflight[k], o)
            h == HandleResult(result)
        IN  /\ inflight' = RemoveAt(inflight, k)
            /\ show' = IF h.close THEN FALSE ELSE show
            /\ loading' = LoadingFinally(h)
            /\ effects' = Ran("settle", h.out, result, FALSE)
            /\ detached' = (detached /\ inflight' # <<>>)
            /\ UNCHANGED <<api, menu, view, palette, formFields, chatId, formData,
                           fileData, errors, hasFileFields>>

(***************************************************************************)
(* User input (index.ts 887-903, 993-1112).                                *)
(***************************************************************************)
\* Positions of the fields rendered as a file input, and as a value input.
FileFieldIndex == {i \in 1..Len(formFields) : formFields[i].type = "file"}
ValueFieldIndex == {i \in 1..Len(formFields) : formFields[i].type # "file"}

\* bind:value={formData[field.name]} on the input rendered for the field.
BoundValue(field, cs) ==
    IF field.type = "number" THEN NumberInputValue(cs) ELSE FStr(cs)

Input ==
    /\ show
    /\ \E i \in ValueFieldIndex, cs \in Texts :
          formData' = Put(formData, formFields[i].name, BoundValue(formFields[i], cs))
    /\ effects' = Ran("input", <<>>, NoResult, FALSE)
    /\ UNCHANGED <<api, menu, view, palette, show, formFields, chatId, fileData, errors,
                   loading, hasFileFields, inflight, detached>>

\* Selections a file input can report: no file, or distinct files; a single
\* file at most unless the input is `multiple`.
Picks(multiple) ==
    {<<>>} \cup {<<f>> : f \in FileNames}
        \cup (IF multiple
              THEN {p \in FileNames \X FileNames : p[1] # p[2]}
              ELSE {})

\* index.ts 887-898
handleFileChange(fl, fieldName, newFiles, multiple) ==
    IF multiple
    THEN Put(fl, fieldName, Get(fl, fieldName, <<>>) \o newFiles)
    ELSE Put(fl, fieldName, newFiles)

\* index.ts 900-903
removeFile(fl, fieldName, index) ==
    Put(fl, fieldName, RemoveAt(Get(fl, fieldName, <<>>), index))

FileChange ==
    /\ show
    /\ \E i \in FileFieldIndex :
          \E newFiles \in Picks(formFields[i].multiple) :
             LET fl == handleFileChange(fileData, formFields[i].name, newFiles,
                                        formFields[i].multiple)
             IN  /\ Len(Get(fl, formFields[i].name, <<>>)) <= MaxFiles
                 /\ fileData' = fl
    /\ effects' = Ran("fileChange", <<>>, NoResult, FALSE)
    /\ UNCHANGED <<api, menu, view, palette, show, formFields, chatId, formData, errors,
                   loading, hasFileFields, inflight, detached>>

RemoveFile ==
    /\ show
    /\ \E i \in FileFieldIndex :
          \E index \in 1..Len(Get(fileData, formFields[i].name, <<>>)) :
             fileData' = removeFile(fileData, formFields[i].name, index)
    /\ effects' = Ran("removeFile", <<>>, NoResult, FALSE)
    /\ UNCHANGED <<api, menu, view, palette, show, formFields, chatId, formData, errors,
                   loading, hasFileFields, inflight, detached>>

(***************************************************************************)
(* Opening and closing.                                                    *)
(***************************************************************************)
\* The state the initialisation block would leave differs from the current one.
Dirty(fields) == InitForm(fields, FormState) # FormState

\* The owner passes a field schema and sets show = true; the component
\* updates once, with both.
Open ==
    /\ ~show
    /\ \E schema \in Schemas :
          /\ formFields' = schema
          /\ show' = TRUE
          /\ Reactive(TRUE, schema)
          /\ effects' = Ran("open", <<>>, NoResult, Dirty(schema))
    /\ UNCHANGED <<api, menu, view, palette, chatId, loading, inflight, detached>>

\* index.ts 959-962; the Cancel button is disabled={loading} (1123-1126).
handleClose ==
    /\ show
    /\ ~loading
    /\ show' = FALSE
    /\ effects' = Ran("close", <<DispatchEffect("close", NullBody)>>, NoResult, FALSE)
    /\ detached' = (inflight # <<>>)
    /\ UNCHANGED <<api, menu, view, palette, formFields, chatId, formData, fileData, errors,
                   loading, hasFileFields, inflight>>

\* <Modal bind:show> (index.ts 965): the Modal closes itself on Escape or a
\* click on its backdrop, whatever the form is doing.
ModalDismiss ==
    /\ show
    /\ show' = FALSE
    /\ effects' = Ran("dismiss", <<>>, NoResult, FALSE)
    /\ detached' = (inflight # <<>>)
    /\ UNCHANGED <<api, menu, view, palette, formFields, chatId, formData, fileData, errors,
                   loading, hasFileFields, inflight>>

(***************************************************************************)
(* The workflow menu (unnamed/part_001 1-136).  `menu` holds its state:    *)
(* show, loading and workflows are the component's variables; listing is   *)
(* the number of getWebhookEnabledModels calls awaited, selecting the      *)
(* workflows whose configuration is awaited, calls the number of listing   *)
(* calls made since the menu was mounted, ran the last handler.            *)
(***************************************************************************)
MaxLoads == 3
MaxSelections == 2

\* WebhookModel.name of the models the backend lists (index.ts 44-49).
WorkflowName(id) == IF id = "m1" THEN Str("Summarise") ELSE Str("")

\* The configuration the backend holds for a model: a WebhookConfig
\* (index.ts 21-28) with the fields selectWorkflow reads.
MenuConfig(id, enabled, title, fields) ==
    [json |-> "object", detail |-> Undefined, message |-> Undefined,
     success |-> Undefined, enabled |-> enabled, items |-> <<>>,
     form_title |-> title, form_description |-> Str("about " \o id),
     form_fields |-> fields]

MenuConfigs(id) ==
    {MenuConfig(id, en, t, f) :
        en \in {True, False},
        t \in {Str(""), Str("title of " \o id)},
        f \in {Undefined, Obj("fields of " \o id)}}

\* What the fetch of a model's configuration can settle with.
MenuConfigOutcomes(id) ==
    {NetworkError}
        \cup {HttpResponse(st, b) : st \in ErrorStatuses, b \in ErrorBodies}
        \cup {HttpResponse(200, b) : b \in MenuConfigs(id)}

\* What the fetch of the model list can settle with.
ListingOutcomes ==
    {NetworkError}
        \cup {HttpResponse(st, b) : st \in ErrorStatuses, b \in ErrorBodies}
        \cup {HttpResponse(200, b) : b \in ModelListBodies}

ConsoleError(text, reason) == [kind |-> "console.error", text |-> text, reason |-> reason]
OnClose == [kind |-> "onClose"]
OnWorkflowSelect(modelId, title, description, fields) ==
    [kind |-> "onWorkflowSelect", modelId |-> modelId, formTitle |-> title,
     formDescription |-> description, formFields |-> fields]

MenuRan(op, workflow, result, out) ==
    [op |-> op, workflow |-> workflow, result |-> result, out |-> out]

\* loadWorkflows up to its await (part_001 27-31).
loadWorkflows(m) ==
    IF Len(m.workflows) > 0 THEN m
    ELSE [m EXCEPT !.loading = TRUE, !.listing = @ + 1, !.calls = @ + 1]

\* loadWorkflows clearing its loading flag only when the listing resolved.
loadWorkflowsResumeKeepingLoading(m, result) ==
    [m EXCEPT !.workflows = IF result.state = "fulfilled" THEN result.value.items ELSE <<>>,
              !.loading = IF result.state = "fulfilled" THEN FALSE ELSE @,
              !.listing = @ - 1,
              !.ran = MenuRan("listed", "", result,
                        IF result.state = "fulfilled" THEN <<>>
                        ELSE <<ConsoleError("Failed to load workflows:", result.reason)>>)]

\* loadWorkflows from its await on (part_001 31-37).
loadWorkflowsResume(m, result) ==
    [m EXCEPT !.workflows = IF result.state = "fulfilled" THEN result.value.items ELSE <<>>,
              !.loading = FALSE,
              !.listing = @ - 1,
              !.ran = MenuRan("listed", "", result,
                        IF result.state = "fulfilled" THEN <<>>
                        ELSE <<ConsoleError("Failed to load workflows:", result.reason)>>)]

\* selectWorkflow handing every configuration to the owner, enabled or not.
selectWorkflowIgnoringEnabled(id, result) ==
    IF result.state = "rejected" \/ result.value.json = "null"
    THEN [close |-> FALSE, out |-> <<ConsoleError("Failed to load workflow config:", Undefined)>>]
    ELSE [close |-> TRUE,
          out |-> <<OnWorkflowSelect(id,
                        Or(result.value.form_title, Or(WorkflowName(id), Str("Workflow Form"))),
                        Or(result.value.form_description, Str("")),
                        Or(result.value.form_fields, Obj("[]")))>>]

\* selectWorkflow closing the menu when the configuration fetch failed.
selectWorkflowClosingOnFailure(id, result) ==
    IF result.state = "rejected"
    THEN [close |-> TRUE,
          out |-> <<ConsoleError("Failed to load workflow config:", result.reason)>>]
    ELSE IF result.value.json = "null"
    THEN [close |-> TRUE,
          out |-> <<ConsoleError("Failed to load workflow config:", Str("TypeError"))>>]
    ELSE IF ~Truthy(result.value.enabled)
    THEN [close |-> FALSE, out |-> <<>>]
    ELSE [close |-> TRUE,
          out |-> <<OnWorkflowSelect(id,
                        Or(result.value.form_title, Or(WorkflowName(id), Str("Workflow Form"))),
                        Or(result.value.form_description, Str("")),
                        Or(result.value.form_fields, Obj("[]")))>>]

\* selectWorkflow from its await on (part_001 42-58): whether it closes the
\* menu, and what it does outside the component.  Reading .enabled of the
\* null that getWebhookConfig resolves to throws a TypeError, caught here.
selectWorkflow(id, result) ==
    IF result.state = "rejected"
    THEN [close |-> FALSE,
          out |-> <<ConsoleError("Failed to load workflow config:", result.reason)>>]
    ELSE IF result.value.json = "null"
    THEN [close |-> FALSE,
          out |-> <<ConsoleError("Failed to load workflow config:", Str("TypeError"))>>]
    ELSE IF ~Truthy(result.value.enabled)
    THEN [close |-> FALSE, out |-> <<>>]
    ELSE [close |-> TRUE,
          out |-> <<OnWorkflowSelect(id,
                        Or(result.value.form_title, Or(WorkflowName(id), Str("Workflow Form"))),
                        Or(result.value.form_description, Str("")),
                        Or(result.value.form_fields, Obj("[]")))>>]

\* The Dropdown opens (bind:show, part_001 62-63); `$: if (show)` runs
\* loadWorkflows (part_001 23-25).
MenuOpen ==
    /\ ~menu.show
    /\ Len(menu.workflows) > 0 \/ menu.calls < MaxLoads
    /\ menu' = loadWorkflows([menu EXCEPT !.show = TRUE,
                                          !.ran = MenuRan("open", "", Fulfilled(NullBody), <<>>)])
    /\ UNCHANGED <<api, modalVars, view, palette>>

\* The Dropdown closes and reports it (part_001 62-69).
MenuClose ==
    /\ menu.show
    /\ menu' = [menu EXCEPT !.show = FALSE,
                            !.ran = MenuRan("close", "", Fulfilled(NullBody), <<OnClose>>)]
    /\ UNCHANGED <<api, modalVars, view, palette>>

\* A getWebhookEnabledModels call settles and its loadWorkflows resumes.
ListingSettles ==
    /\ menu.listing > 0
    /\ \E o \in ListingOutcomes :
          menu' = loadWorkflowsResume(menu, getWebhookEnabledModels(o))
    /\ UNCHANGED <<api, modalVars, view, palette>>

\* A click on an entry of the list (part_001 86-100): selectWorkflow up to
\* its await (part_001 40-43).
SelectWorkflow ==
    /\ menu.show
    /\ ~menu.loading
    /\ Len(menu.selecting) < MaxSelections
    /\ \E i \in 1..Len(menu.workflows) :
          menu' = [menu EXCEPT !.selecting = Append(@, menu.workflows[i]),
                               !.ran = MenuRan("select", menu.workflows[i],
                                               Fulfilled(NullBody), <<>>)]
    /\ UNCHANGED <<api, modalVars, view, palette>>

\* A getWebhookConfig call settles and its selectWorkflow resumes.
ConfigSettles ==
    /\ \E k \in 1..Len(menu.selecting) :
          \E o \in MenuConfigOutcomes(menu.selecting[k]) :
              LET id == menu.selecting[k]
                  result == getWebhookConfig(o)
                  s == selectWorkflow(id, result)
              IN  menu' = [menu EXCEPT !.selecting = RemoveAt(@, k),
                                       !.show = IF s.close THEN FALSE ELSE @,
                                       !.ran = MenuRan("selected", id, result, s.out)]
    /\ UNCHANGED <<api, modalVars, view, palette>>

MenuInit ==
    menu = [show |-> FALSE, loading |-> FALSE, workflows |-> <<>>, listing |-> 0,
            selecting |-> <<>>, calls |-> 0,
            ran |-> MenuRan("init", "", Fulfilled(NullBody), <<>>)]

(***************************************************************************)
(* The response view (index.ts 204-372).  Its `data` prop is any value a   *)
(* JSON body can carry, or undefined.  An object is its members in the     *)
(* order of the JSON text; JavaScript enumerates an object's integer-like  *)
(* keys first, ascending, and its other keys in that order after them.     *)
(***************************************************************************)
MaxArrayLen == 2
MaxKeys == 2
MaxMessageLen == 2

\* k: the kind of value; n: a number, or 1 and 0 for true and false;
\* s: a string's characters, or an object's keys; items: an array's
\* elements, or an object's values, one per key.
JValue(k, n, s, items) == [k |-> k, n |-> n, s |-> s, items |-> items]

Absent == JValue("undefined", 0, <<>>, <<>>)
JNull == JValue("null", 0, <<>>, <<>>)
JBool(b) == JValue("boolean", IF b THEN 1 ELSE 0, <<>>, <<>>)
JNum(n) == JValue("number", n, <<>>, <<>>)
JStr(cs) == JValue("string", 0, cs, <<>>)
JArr(items) == JValue("array", 0, <<>>, items)
JObj(keys, values) == JValue("object", 0, keys, values)

Scalars ==
    {JNull, JBool(TRUE), JBool(FALSE), JNum(0), JNum(5), JStr(<<>>), JStr(<<"h", "i">>)}

ObjKeys == {"a", "b", "2"}

\* Sequences of at most n distinct entries of S.
DistinctSeqs(S, n) ==
    {q \in UNION {[1..m -> S] : m \in 0..n} :
        \A i \in 1..Len(q), j \in 1..Len(q) : q[i] = q[j] => i = j}

Objects(values) ==
    {JObj(p[1], p[2]) :
        p \in {p \in DistinctSeqs(ObjKeys, MaxKeys)
                        \X UNION {[1..n -> values] : n \in 0..MaxKeys} :
                    Len(p[1]) = Len(p[2])}}

\* The elements of arrays: scalars, row objects, and an array.
Rows == Objects({JNum(1)})
Elements == Scalars \cup Rows \cup {JArr(<<JNum(1)>>)}
Arrays == {JArr(q) : q \in UNION {[1..n -> Elements] : n \in 0..MaxArrayLen}}

DataValues == {Absent} \cup Scalars \cup Objects({JNum(1), JNull}) \cup Arrays

\* ToBoolean
Falsy(v) ==
    \/ v.k \in {"undefined", "null"}
    \/ v.k = "boolean" /\ v.n = 0
    \/ v.k = "number" /\ v.n = 0
    \/ v.k = "string" /\ v.s = <<>>

\* typeof v === 'object'
TypeofObject(v) == v.k \in {"object", "array", "null"}

IndexKey(i) == ToString(i)

\* The integer-like keys among ks, ascending.
RECURSIVE AscendingIndexKeys(_)
AscendingIndexKeys(ks) ==
    LET idx == {k \in ks : KeyIndex(k) >= 0}
    IN  IF idx = {} THEN <<>>
        ELSE LET least == CHOOSE k \in idx : \A l \in idx : KeyIndex(k) <= KeyIndex(l)
             IN  <<least>> \o AscendingIndexKeys(idx \ {least})

NamedKeys(keys) == SelectSeq(keys, LAMBDA k : KeyIndex(k) < 0)

\* Object.keys enumerating every key of an object in the order given.
ObjectKeysAsGiven(v) ==
    CASE v.k = "object" -> v.s
      [] v.k = "array" -> [i \in 1..Len(v.items) |-> IndexKey(i - 1)]
      [] v.k = "string" -> [i \in 1..Len(v.s) |-> IndexKey(i - 1)]
      [] OTHER -> <<>>

\* Object.keys(v) for a value it accepts: own enumerable string keys in
\* property order.
ObjectKeys(v) ==
    CASE v.k = "object" ->
            AscendingIndexKeys({v.s[i] : i \in 1..Len(v.s)}) \o NamedKeys(v.s)
      [] v.k = "array" -> [i \in 1..Len(v.items) |-> IndexKey(i - 1)]
      [] v.k = "string" -> [i \in 1..Len(v.s) |-> IndexKey(i - 1)]
      [] OTHER -> <<>>

\* Object.keys(v) and v[key] throw a TypeError for null and undefined.
NotAnObject(v) == v.k \in {"undefined", "null"}

\* v[key]
GetProp(v, key) ==
    CASE v.k = "object" ->
            IF \E i \in 1..Len(v.s) : v.s[i] = key
            THEN v.items[CHOOSE i \in 1..Len(v.s) : v.s[i] = key] ELSE Absent
      [] v.k = "array" ->
            IF KeyIndex(key) >= 0 /\ KeyIndex(key) < Len(v.items)
            THEN v.items[KeyIndex(key) + 1] ELSE Absent
      [] v.k = "string" ->
            IF KeyIndex(key) >= 0 /\ KeyIndex(key) < Len(v.s)
            THEN JStr(<<v.s[KeyIndex(key) + 1]>>) ELSE Absent
      [] OTHER -> Absent

\* Object.entries(v)
ObjectEntries(v) ==
    LET ks == ObjectKeys(v) IN [i \in 1..Len(ks) |-> <<ks[i], GetProp(v, ks[i])>>]

RECURSIVE Concat(_)
Concat(strs) == IF strs = <<>> THEN "" ELSE Head(strs) \o Concat(Tail(strs))

RECURSIVE Join(_)
Join(strs) ==
    IF Len(strs) <= 1 THEN Concat(strs) ELSE Head(strs) \o "," \o Join(Tail(strs))

\* JSON.stringify(v)
RECURSIVE Stringify(_)
Stringify(v) ==
    CASE v.k = "null" -> "null"
      [] v.k = "boolean" -> IF v.n = 1 THEN "true" ELSE "false"
      [] v.k = "number" -> ToString(v.n)
      [] v.k = "string" -> "\"" \o Concat(v.s) \o "\""
      [] v.k = "array" ->
            "[" \o Join([i \in 1..Len(v.items) |-> Stringify(v.items[i])]) \o "]"
      [] v.k = "object" ->
            LET es == ObjectEntries(v)
            IN  "{" \o Join([i \in 1..Len(es) |->
                                "\"" \o es[i][1] \o "\":" \o Stringify(es[i][2])]) \o "}"

\* index.ts 219-236
detectDataType(data) ==
    IF Falsy(data) THEN "empty"
    ELSE IF data.k = "array" /\ Len(data.items) > 0
    THEN IF TypeofObject(data.items[1]) /\ data.items[1].k # "null" THEN "table" ELSE "list"
    ELSE IF TypeofObject(data) /\ data.k # "null" /\ data.k # "array" THEN "key-value"
    ELSE "raw"

\* allKeys after the rows from i on were scanned (index.ts 241-243).
RECURSIVE AddKeys(_, _)
AddKeys(allKeys, ks) ==
    IF ks = <<>> THEN allKeys
    ELSE AddKeys(IF \E i \in 1..Len(allKeys) : allKeys[i] = Head(ks)
                 THEN allKeys ELSE Append(allKeys, Head(ks)),
                 Tail(ks))

RECURSIVE ScanRows(_, _, _)
ScanRows(rows, i, allKeys) ==
    IF i > Len(rows) THEN allKeys
    ELSE ScanRows(rows, i + 1, AddKeys(allKeys, ObjectKeys(rows[i])))

\* index.ts 238-245: the headers, or the TypeError Object.keys throws.
getTableHeaders(data) ==
    IF Len(data.items) = 0 THEN [threw |-> FALSE, headers |-> <<>>]
    ELSE IF \E i \in 1..Len(data.items) : NotAnObject(data.items[i])
    THEN [threw |-> TRUE, headers |-> <<>>]
    ELSE [threw |-> FALSE, headers |-> ScanRows(data.items, 1, <<>>)]

\* formatValue taking every typeof-object value, null with them, as JSON text
\* before it looks for null.
formatValueObjectsFirst(value) ==
    IF value.k = "undefined" THEN "-"
    ELSE IF TypeofObject(value) THEN Stringify(value)
    ELSE IF value.k = "boolean" THEN (IF value.n = 1 THEN "check mark" ELSE "ballot x")
    ELSE IF value.k = "number" THEN ToString(value.n)
    ELSE Concat(value.s)

\* index.ts 247-252
formatValue(value) ==
    IF value.k \in {"null", "undefined"} THEN "-"
    ELSE IF value.k = "boolean" THEN (IF value.n = 1 THEN "check mark" ELSE "ballot x")
    ELSE IF TypeofObject(value) THEN Stringify(value)
    ELSE IF value.k = "number" THEN ToString(value.n)
    ELSE Concat(value.s)

\* JSON.stringify(data, null, 2); the values that reach the raw branch are
\* numbers, true and [], whose indented form is their compact form.
StringifyIndented(v) == Stringify(v)

Markup(kind, head, body, text) ==
    [kind |-> kind, head |-> head, body |-> body, text |-> text]

NoMarkup == Markup("none", <<>>, <<>>, "")

\* The data display block (index.ts 309-372): what it renders, or the
\* TypeError that reading row[header] of a null row throws.
DataDisplay(data, dataType, tableHeaders) ==
    IF dataType = "table" /\ data.k = "array"
    THEN IF tableHeaders # <<>> /\ \E i \in 1..Len(data.items) : NotAnObject(data.items[i])
         THEN [threw |-> TRUE, markup |-> NoMarkup]
         ELSE [threw |-> FALSE,
               markup |-> Markup("table", tableHeaders,
                            [i \in 1..Len(data.items) |->
                                [j \in 1..Len(tableHeaders) |->
                                    formatValue(GetProp(data.items[i], tableHeaders[j]))]],
                            "")]
    ELSE IF dataType = "key-value" /\ TypeofObject(data) /\ data.k # "null"
    THEN LET es == ObjectEntries(data)
         IN  [threw |-> FALSE,
              markup |-> Markup("key-value", <<>>,
                            [i \in 1..Len(es) |-> <<es[i][1], formatValue(es[i][2])>>], "")]
    ELSE IF dataType = "list" /\ data.k = "array"
    THEN [threw |-> FALSE,
          markup |-> Markup("list", <<>>,
                        [i \in 1..Len(data.items) |-> formatValue(data.items[i])], "")]
    ELSE IF dataType = "raw" /\ ~Falsy(data)
    THEN [threw |-> FALSE,
          markup |-> Markup("raw", <<>>, <<>>,
                        IF data.k = "string" THEN Concat(data.s) ELSE StringifyIndented(data))]
    ELSE [threw |-> FALSE, markup |-> NoMarkup]

(***************************************************************************)
(* The message block (index.ts 254-256, 263-268).  A message is a sequence *)
(* of parts of text, each plain text, Markdown or inline HTML; the HTML    *)
(* made of it is the sequence of the fragments made of its parts.          *)
(***************************************************************************)
MessageParts ==
    {"hi", "*hi*", "[x](javascript:0)", "<script>0</script>", "<b>hi</b>"}

Messages == UNION {[1..n -> MessageParts] : n \in 0..MaxMessageLen}

\* What data a message is shown with: none, and a table with a null row,
\* whose headers cannot be computed.
MessageData == {Absent, JArr(<<JObj(<<"a">>, <<JNum(1)>>), JNull>>)}

\* marked.parse(text): Markdown becomes elements, an emphasis an <em> and a
\* link an <a> with the link's target as its href, whatever the target is;
\* plain text and inline HTML come out as they are.
markedParse(text) ==
    [i \in 1..Len(text) |->
        CASE text[i] = "*hi*" -> "<em>hi</em>"
          [] text[i] = "[x](javascript:0)" -> "<a href=\"javascript:0\">x</a>"
          [] OTHER -> text[i]]

\* DOMPurify.sanitize(html): script elements are removed and an href with a
\* javascript: target is dropped from its element; what is no HTML that
\* executes script is left as it is.
sanitize(html) ==
    LET clean == [i \in 1..Len(html) |->
                    CASE html[i] = "<script>0</script>" -> ""
                      [] html[i] = "<a href=\"javascript:0\">x</a>" -> "<a>x</a>"
                      [] OTHER -> html[i]]
    IN  SelectSeq(clean, LAMBDA part : part # "")

\* A renderMarkdown that sanitises the Markdown source and parses the result.
renderMarkdownSanitizingFirst(text) == markedParse(sanitize(text))

\* index.ts 254-256
renderMarkdown(text) == sanitize(markedParse(text))

\* The message block (index.ts 263-268): whether it is rendered, and the
\* HTML inserted in it.
MessageBlock(message) ==
    IF message # <<>>
    THEN [shown |-> TRUE, html |-> renderMarkdown(message)]
    ELSE [shown |-> FALSE, html |-> <<>>]

\* The component given a value as data and a message, before its script has
\* run.
ViewGiven(data, message) ==
    [data |-> data, dataType |-> "", tableHeaders |-> <<>>, markup |-> NoMarkup,
     threw |-> FALSE, created |-> FALSE,
     message |-> message, messageShown |-> FALSE, messageHtml |-> <<>>]

\* The component created with a value as data: the reactive statements
\* (index.ts 258-259), then the template.  A later value of the prop runs
\* the same statements and the same template.  When one of them throws,
\* creation is abandoned and nothing is shown.
ViewUpdate(data, message) ==
    LET dataType == detectDataType(data)
        hs == IF dataType = "table" THEN getTableHeaders(data)
              ELSE [threw |-> FALSE, headers |-> <<>>]
        shown == DataDisplay(data, dataType, hs.headers)
        block == MessageBlock(message)
    IN  IF hs.threw \/ shown.threw
        THEN [data |-> data, dataType |-> dataType, tableHeaders |-> <<>>,
              markup |-> NoMarkup, threw |-> TRUE, created |-> TRUE,
              message |-> message, messageShown |-> FALSE, messageHtml |-> <<>>]
        ELSE [data |-> data, dataType |-> dataType, tableHeaders |-> hs.headers,
              markup |-> shown.markup, threw |-> FALSE, created |-> TRUE,
              message |-> message, messageShown |-> block.shown,
              messageHtml |-> block.html]

\* The component is created with the data it was given.
CreateView ==
    /\ ~view.created
    /\ view' = ViewUpdate(view.data, view.message)
    /\ UNCHANGED <<api, modalVars, menu, palette>>

\* A view that was given no data.
ViewIdle == view = ViewUpdate(Absent, <<>>)

(***************************************************************************)
(* The slash-command palette (Commands/Webhooks.svelte).  Strings are      *)
(* sequences of characters.                                                *)
(***************************************************************************)
MaxQueryLen == 2
MaxWebhooks == 2

PaletteChars == {"/", "a", "B"}
Queries == UNION {[1..n -> PaletteChars] : n \in 0..MaxQueryLen}

\* WebhookModel (index.ts 44-49)
Webhook(id, name, slash_command) ==
    [id |-> id, name |-> name, slash_command |-> slash_command]

WebhookCatalogue ==
    {Webhook("m1", FStr(<<"A", "b">>), FStr(<<"/", "a">>)),
     Webhook("m2", FStr(<<"b">>), FUndef),
     Webhook("m3", FUndef, FStr(<<"/", "B">>)),
     Webhook("m4", FStr(<<"a", "b">>), FStr(<<>>))}

WebhookLists == DistinctSeqs(WebhookCatalogue, MaxWebhooks)

\* String.prototype.toLowerCase over the characters in use.
LowerChar(c) ==
    CASE c = "A" -> "a"
      [] c = "B" -> "b"
      [] OTHER -> c

toLowerCase(cs) == [i \in 1..Len(cs) |-> LowerChar(cs[i])]

\* v?.toLowerCase() || ''
LowerOrEmpty(v) == IF v.t = "string" THEN toLowerCase(v.s) ELSE <<>>

\* v || ''
StringOrEmpty(v) == IF v.t = "string" THEN v.s ELSE <<>>

RECURSIVE StartsWith(_, _)
StartsWith(cs, q) ==
    \/ q = <<>>
    \/ cs # <<>> /\ Head(cs) = Head(q) /\ StartsWith(Tail(cs), Tail(q))

\* String.prototype.includes
RECURSIVE includes(_, _)
includes(cs, q) ==
    \/ StartsWith(cs, q)
    \/ cs # <<>> /\ includes(Tail(cs), q)

\* The filter predicate comparing the query as typed.
MatchesCaseSensitive(w, query) ==
    includes(LowerOrEmpty(w.slash_command), query) \/ includes(LowerOrEmpty(w.name), query)

\* The filter predicate (Webhooks.svelte 16-21).
Matches(w, query) ==
    LET command == LowerOrEmpty(w.slash_command)
        name == LowerOrEmpty(w.name)
        q == toLowerCase(query)
    IN  includes(command, q) \/ includes(name, q)

\* Collation of the characters in use: punctuation sorts before letters,
\* letters by base letter first and, between equal strings of base letters,
\* lower case before upper case.
BaseRank(c) == IF c = "/" THEN 0 ELSE IF LowerChar(c) = "a" THEN 1 ELSE 2
CaseRank(c) == IF LowerChar(c) = c THEN 0 ELSE 1

RECURSIVE CompareBy(_, _, _)
CompareBy(rank, x, y) ==
    IF x = <<>> /\ y = <<>> THEN 0
    ELSE IF x = <<>> THEN -1
    ELSE IF y = <<>> THEN 1
    ELSE IF rank[Head(x)] < rank[Head(y)] THEN -1
    ELSE IF rank[Head(x)] > rank[Head(y)] THEN 1
    ELSE CompareBy(rank, Tail(x), Tail(y))

AllChars == PaletteChars \cup {"A", "b"}

\* String.prototype.localeCompare
localeCompare(x, y) ==
    LET base == CompareBy([c \in AllChars |-> BaseRank(c)], x, y)
    IN  IF base # 0 THEN base ELSE CompareBy([c \in AllChars |-> CaseRank(c)], x, y)

\* Array.prototype.sort by name (Webhooks.svelte 22): a stable sort.
RECURSIVE InsertByName(_, _)
InsertByName(sorted, w) ==
    IF sorted = <<>> THEN <<w>>
    ELSE IF localeCompare(StringOrEmpty(w.name), StringOrEmpty(Head(sorted).name)) < 0
    THEN <<w>> \o sorted
    ELSE <<Head(sorted)>> \o InsertByName(Tail(sorted), w)

RECURSIVE SortByName(_)
SortByName(ws) ==
    IF ws = <<>> THEN <<>>
    ELSE InsertByName(SortByName(SubSeq(ws, 1, Len(ws) - 1)), ws[Len(ws)])

\* $: filteredItems (Webhooks.svelte 15-22)
FilteredItems(webhooks, query) ==
    SortByName(SelectSeq(webhooks, LAMBDA w : Matches(w, query)))

OnSelect(item) == [kind |-> "onSelect", type |-> "webhook", data |-> item]

PaletteRan(op, out) == [op |-> op, out |-> out]

\* The owner passes another query: $: filteredItems and then
\* $: if (query) selectedIdx = 0 (Webhooks.svelte 15-26).
SetQuery ==
    /\ \E q \in Queries :
          /\ q # palette.query
          /\ palette' = [palette EXCEPT
                            !.query = q,
                            !.filteredItems = FilteredItems(palette.webhooks, q),
                            !.selectedIdx = IF q # <<>> THEN 0 ELSE @,
                            !.ran = PaletteRan("query", <<>>)]
    /\ UNCHANGED <<api, modalVars, menu, view>>

\* The owner passes another list of models: $: filteredItems alone.
SetWebhooks ==
    /\ \E ws \in WebhookLists :
          /\ ws # palette.webhooks
          /\ palette' = [palette EXCEPT
                            !.webhooks = ws,
                            !.filteredItems = FilteredItems(ws, palette.query),
                            !.ran = PaletteRan("webhooks", <<>>)]
    /\ UNCHANGED <<api, modalVars, menu, view>>

Max(a, b) == IF a >= b THEN a ELSE b
Min(a, b) == IF a <= b THEN a ELSE b

\* Webhooks.svelte 28-30
selectUp ==
    /\ palette' = [palette EXCEPT !.selectedIdx = Max(0, @ - 1),
                                  !.ran = PaletteRan("selectUp", <<>>)]
    /\ UNCHANGED <<api, modalVars, menu, view>>

\* Webhooks.svelte 32-34
selectDown ==
    /\ palette' = [palette EXCEPT
                      !.selectedIdx = Min(@ + 1, Len(palette.filteredItems) - 1),
                      !.ran = PaletteRan("selectDown", <<>>)]
    /\ UNCHANGED <<api, modalVars, menu, view>>

\* Webhooks.svelte 36-41: filteredItems[selectedIdx] is undefined outside the list.
select ==
    /\ palette' = [palette EXCEPT
                      !.ran = PaletteRan("select",
                                 IF palette.selectedIdx >= 0
                                        /\ palette.selectedIdx < Len(palette.filteredItems)
                                 THEN <<OnSelect(palette.filteredItems[palette.selectedIdx + 1])>>
                                 ELSE <<>>)]
    /\ UNCHANGED <<api, modalVars, menu, view>>

\* The pointer moves over a rendered entry (Webhooks.svelte 52-62).
MouseMove ==
    /\ \E idx \in 0..(Len(palette.filteredItems) - 1) :
          palette' = [palette EXCEPT !.selectedIdx = idx,
                                     !.ran = PaletteRan("mousemove", <<>>)]
    /\ UNCHANGED <<api, modalVars, menu, view>>

\* A click on a rendered entry (Webhooks.svelte 57-59).
Click ==
    /\ \E idx \in 0..(Len(palette.filteredItems) - 1) :
          palette' = [palette EXCEPT
                         !.ran = PaletteRan("click",
                                    <<OnSelect(palette.filteredItems[idx + 1])>>)]
    /\ UNCHANGED <<api, modalVars, menu, view>>

\* The palette as constructed with a query and a list of models.
PaletteWith(query, webhooks) ==
    [query |-> query, webhooks |-> webhooks, selectedIdx |-> 0,
     filteredItems |-> FilteredItems(webhooks, query), ran |-> PaletteRan("init", <<>>)]

PaletteIdle == palette = PaletteWith(<<>>, <<>>)

(***************************************************************************)
(* Specifications.                                                         *)
(***************************************************************************)
FormInit ==
    /\ show = FALSE
    /\ formFields = <<>>
    /\ formData = <<>>
    /\ fileData = <<>>
    /\ errors = <<>>
    /\ loading = FALSE
    /\ hasFileFields = FALSE
    /\ inflight = <<>>
    /\ effects = Ran("init", <<>>, NoResult, FALSE)
    /\ detached = FALSE

\* The API client on its own.
ApiInit == api = ApiIdle /\ chatId = Null /\ FormInit /\ MenuInit /\ ViewIdle /\ PaletteIdle

ApiNext ==
    \/ CallGetWebhookConfig
    \/ CallInvokeWebhook
    \/ CallInvokeWebhookWithFiles
    \/ CallGetWebhookEnabledModels
    \/ FetchSettles

SpecApi == ApiInit /\ [][ApiNext]_vars

\* The form modal, invoking through the API client.
Init ==
    /\ api = ApiIdle
    /\ chatId \in {Null, Str("chat1")}
    /\ FormInit
    /\ MenuInit
    /\ ViewIdle
    /\ PaletteIdle

Next ==
    \/ Open
    \/ Input
    \/ FileChange
    \/ RemoveFile
    \/ Submit
    \/ Settle
    \/ handleClose
    \/ ModalDismiss

Spec == Init /\ [][Next]_vars

\* The workflow menu, listing and configuring through the API client.
InitMenu == api = ApiIdle /\ chatId = Null /\ FormInit /\ MenuInit /\ ViewIdle /\ PaletteIdle

NextMenu ==
    \/ MenuOpen
    \/ MenuClose
    \/ ListingSettles
    \/ SelectWorkflow
    \/ ConfigSettles

SpecMenu == InitMenu /\ [][NextMenu]_vars

\* The response view, given any data.
InitView ==
    /\ api = ApiIdle /\ chatId = Null /\ FormInit /\ MenuInit /\ PaletteIdle
    /\ view \in {ViewGiven(d, <<>>) : d \in DataValues}
                \cup {ViewGiven(d, m) : d \in MessageData, m \in Messages}

NextView == CreateView

SpecView == InitView /\ [][NextView]_vars

\* The palette, given any query and any list of models.
InitPalette ==
    /\ api = ApiIdle /\ chatId = Null /\ FormInit /\ MenuInit /\ ViewIdle
    /\ palette \in {PaletteWith(q, ws) : q \in Queries, ws \in WebhookLists}

NextPalette ==
    \/ SetQuery
    \/ SetWebhooks
    \/ selectUp
    \/ selectDown
    \/ select
    \/ MouseMove
    \/ Click

SpecPalette == InitPalette /\ [][NextPalette]_vars

(***************************************************************************)
(* Claims about the API client, checked under SpecApi.                     *)
(***************************************************************************)
Settled(fn) == api.phase = "settled" /\ api.fn = fn

\* The HTTP call did not succeed: a network-level error or a non-2xx status.
HttpFailed(o) == o.net \/ o.status < 200 \/ o.status > 299

\* The response is a non-2xx one whose JSON body carries a usable detail.
CarriesDetail(o) ==
    /\ ~o.net
    /\ o.body.json = "object"
    /\ o.body.detail.t # "undefined"
    /\ o.body.detail # Str("")

\* C1: getWebhookEnabledModels never rejects: whenever its HTTP call fails
\* (non-2xx status with any body, or a network-level error) it resolves to
\* the empty list.
C1_EnabledModelsNeverRejects ==
    (Settled("getWebhookEnabledModels") /\ HttpFailed(api.outcome))
        => api.result = Fulfilled(ArrayBody(<<>>))

\* C2: getWebhookConfig rejects whenever its HTTP call does not succeed, and
\* with the body's detail when the body carries one; it never resolves with
\* a value in these cases.
C2_ConfigFailurePropagates ==
    (Settled("getWebhookConfig") /\ HttpFailed(api.outcome))
        => /\ api.result.state = "rejected"
           /\ CarriesDetail(api.outcome) => api.result.reason = api.outcome.body.detail

\* The message of the error a failed call raises: the body's own `message`
\* when a JSON body was thrown, the exception's message otherwise.
ErrorMessage(o) ==
    IF o.net THEN Str("Failed to fetch")
    ELSE IF o.body.json = "invalid" THEN Str("Unexpected token")
    ELSE o.body.message

ExpectedInvokeReason(o) ==
    IF CarriesDetail(o) THEN o.body.detail
    ELSE IF ErrorMessage(o).t = "string" /\ ErrorMessage(o).s # "" THEN ErrorMessage(o)
    ELSE Str("Unknown error")

\* C3: invokeWebhook and invokeWebhookWithFiles reject on every non-success
\* status and every transport error (a body that cannot be parsed included),
\* with the first available of the body's detail, the error's message and
\* 'Unknown error'; on a success status they resolve with the parsed body.
C3_InvokeErrorPriority ==
    \A fn \in {"invokeWebhook", "invokeWebhookWithFiles"} :
        Settled(fn) =>
            IF HttpFailed(api.outcome) \/ api.outcome.body.json = "invalid"
            THEN api.result = Rejected(ExpectedInvokeReason(api.outcome))
            ELSE api.result = Fulfilled(api.outcome.body)

\* invokeWebhook on a 400 response with body {"detail": "bad input"} has
\* rejected with "bad input".
C3_Witness ==
    /\ Settled("invokeWebhook")
    /\ api.outcome.status = 400
    /\ api.outcome.body.detail = Str("bad input")
    /\ api.result = Rejected(Str("bad input"))

(***************************************************************************)
(* Claims about the form modal, checked under Spec.  A state whose         *)
(* effects.op is "submit" is the state handleSubmit leaves at its await    *)
(* (or at its early return); one whose effects.op is "settle" is the state *)
(* it leaves when it ends.                                                 *)
(***************************************************************************)
Fetches(out) == SelectSeq(out, LAMBDA e : e.kind = "fetch")

SchemaHasFile == \E i \in 1..Len(formFields) : formFields[i].type = "file"

\* C4: the submission path is decided by the schema alone: a submission that
\* reaches the network calls invokeWebhookWithFiles when the schema has a
\* file field (even with no file selected) and invokeWebhook otherwise.
C4_PathBySchema ==
    effects.op = "submit" =>
        \A k \in 1..Len(effects.out) :
            effects.out[k].kind = "fetch" =>
                effects.out[k].name =
                    IF SchemaHasFile THEN "invokeWebhookWithFiles" ELSE "invokeWebhook"

\* A submission of a schema with a file field and no file selected went out
\* on the multipart path.
C4_Witness ==
    /\ effects.op = "submit"
    /\ Len(effects.out) = 1
    /\ effects.out[1].kind = "fetch"
    /\ effects.out[1].name = "invokeWebhookWithFiles"
    /\ effects.out[1].req.files = <<>>

\* The field holds something: a file field a file, any other field a number
\* or a string that is not blank.
Populated(field) ==
    IF field.type = "file"
    THEN Len(Get(fileData, field.name, <<>>)) > 0
    ELSE LET v == Get(formData, field.name, FUndef) IN
         \/ v.t = "number"
         \/ v.t = "string" /\ Trim(v.s) # <<>>

AllRequiredPopulated ==
    \A i \in 1..Len(formFields) : formFields[i].required => Populated(formFields[i])

\* C5: a submit attempt with some required field empty issues no network
\* call, and one with every required field populated issues exactly one.
C5_OneCallIffPopulated ==
    effects.op = "submit" =>
        Len(Fetches(effects.out)) = IF AllRequiredPopulated THEN 1 ELSE 0

\* The error map validation is meant to leave: one '<label> is required'
\* entry per required field that holds nothing, in schema order.
ExpectedErrors ==
    LET failing == SelectSeq(formFields, LAMBDA f : f.required /\ ~Populated(f))
    IN  [k \in 1..Len(failing) |-> <<failing[k].name, failing[k].label \o " is required">>]

\* C6: after every submit attempt the error map has an entry for exactly the
\* required fields that are empty, each '<label> is required', in schema
\* order, and none for any other field.
C6_CompleteErrorMap ==
    effects.op = "submit" => errors = ExpectedErrors

\* C7: whenever the modal becomes visible with a schema, the form state is
\* one entry per non-file field holding its default (or ''), one empty file
\* list per file field, no other keys, and an empty error map.
C7_OpenResets ==
    effects.op = "open" =>
        /\ show
        /\ Keys(formData) = {formFields[i].name : i \in ValueFieldIndex}
        /\ Len(formData) = Cardinality(ValueFieldIndex)
        /\ \A i \in ValueFieldIndex :
              Get(formData, formFields[i].name, FUndef) =
                  IF formFields[i].default \in {FUndef, FStr(<<>>)}
                  THEN FStr(<<>>) ELSE formFields[i].default
        /\ Keys(fileData) = {formFields[i].name : i \in FileFieldIndex}
        /\ Len(fileData) = Cardinality(FileFieldIndex)
        /\ \A i \in FileFieldIndex :
              Get(fileData, formFields[i].name, <<"none">>) = <<>>
        /\ errors = <<>>

\* The modal was opened on a state that had values, files or errors the
\* schema's defaults do not have.
C7_Witness == effects.op = "open" /\ effects.prior /\ errors = <<>>

SucceededWith(result) ==
    result.state = "fulfilled" /\ result.value.json = "object" /\ result.value.success = True

RefusedWith(result) ==
    result.state = "fulfilled" /\ result.value.json = "object" /\ result.value.success = False

MessageOr(response, fallback) ==
    IF response.message.t = "string" /\ response.message.s # ""
    THEN response.message ELSE Str(fallback)

\* C8: when a submission resolves with success = true the modal closes, the
\* 'success' event is dispatched once with the whole response, a success
\* toast shows response.message or 'Workflow executed successfully', and no
\* error toast is raised.
C8_SuccessCloses ==
    (effects.op = "settle" /\ SucceededWith(effects.result)) =>
        /\ show = FALSE
        /\ effects.out =
              <<DispatchEffect("success", effects.result.value),
                ToastSuccess(MessageOr(effects.result.value,
                                       "Workflow executed successfully"))>>

\* A response {success: true} without a message closed the modal with the
\* generic toast.
C8_Witness ==
    /\ effects.op = "settle"
    /\ SucceededWith(effects.result)
    /\ effects.result.value.message = Undefined
    /\ ~show
    /\ ~loading

\* C9: when a submission resolves with success = false, or the invocation
\* rejects, show is left as it was, no 'success' event is dispatched and
\* exactly one error toast is shown: response.message or 'Workflow failed'
\* for success = false; the rejection value when it is a string, else
\* 'Failed to execute workflow', for a rejection.
C9_FailureKeepsOpen ==
    [][(effects'.op = "settle"
          /\ (RefusedWith(effects'.result) \/ effects'.result.state = "rejected"))
        => /\ show' = show
           /\ effects'.out =
                 <<ToastError(IF RefusedWith(effects'.result)
                              THEN MessageOr(effects'.result.value, "Workflow failed")
                              ELSE IF effects'.result.reason.t = "string"
                              THEN effects'.result.reason
                              ELSE Str("Failed to execute workflow"))>>]_vars

\* An invocation rejected with a structured detail left the modal open with
\* the generic error toast.
C9_Witness ==
    /\ effects.op = "settle"
    /\ effects.result.state = "rejected"
    /\ effects.result.reason.t = "object"
    /\ effects.out = <<ToastError(Str("Failed to execute workflow"))>>
    /\ show

\* C10: at most one invocation request is in flight at any time.
C10_OneInFlight == Len(inflight) <= 1

\* A request is pending while the modal shows a form that would pass
\* validation.
C10_Witness ==
    /\ Len(inflight) = 1
    /\ show
    /\ loading
    /\ validateForm(formFields, formData, fileData).isValid
    /\ ~validateForm(formFields, formData, fileData).threw


(***************************************************************************)
(* The form modal closed while its submission is pending.                  *)
(***************************************************************************)
\* C11: when the modal was closed while a submission was pending, through
\* the bound Modal and whether or not it was opened again, the settlement of
\* that submission leaves the modal's state alone: show keeps its value, so
\* a reopened modal is not closed by it, and the values, files and errors of
\* the form keep theirs.
C11_DetachedSettleInert ==
    [][(detached /\ effects'.op = "settle")
          => /\ show' = show
             /\ formData' = formData
             /\ fileData' = fileData
             /\ errors' = errors]_vars

(***************************************************************************)
(* The workflow menu.                                                      *)
(***************************************************************************)
\* C12: over the mounted lifetime of the menu getWebhookEnabledModels is
\* called at most once, whatever the first call returned and however opening
\* and closing interleave with its response.
C12_ListedAtMostOnce == menu.calls <= 1

\* The configuration that settled last, and the step that settled it.
SettledConfig == menu'.ran.result.value
ConfigSettled ==
    /\ menu'.ran.op = "selected"
    /\ \E k \in 1..Len(menu.selecting) :
          /\ menu'.selecting = RemoveAt(menu.selecting, k)
          /\ menu.selecting[k] = menu'.ran.workflow
    /\ menu'.ran.result.state = "fulfilled"
    /\ SettledConfig \in MenuConfigs(menu'.ran.workflow)

\* C13: when the configuration fetched for a selected workflow says enabled
\* is false, the selection is dropped: onWorkflowSelect is not called,
\* nothing is reported and the menu stays as it is; when it says enabled is
\* true, onWorkflowSelect is called exactly once, with the id of the selected
\* model and the title, description and fields of that model's
\* configuration, and the menu closes.
C13_EnabledGate ==
    [][ConfigSettled =>
          IF SettledConfig.enabled = False
          THEN menu'.ran.out = <<>> /\ menu'.show = menu.show
          ELSE /\ Len(menu'.ran.out) = 1
               /\ menu'.ran.out[1].kind = "onWorkflowSelect"
               /\ menu'.ran.out[1].modelId = menu'.ran.workflow
               /\ menu'.ran.out[1].formTitle
                     = (IF SettledConfig.form_title # Str("") THEN SettledConfig.form_title
                        ELSE IF WorkflowName(menu'.ran.workflow) # Str("")
                        THEN WorkflowName(menu'.ran.workflow)
                        ELSE Str("Workflow Form"))
               /\ menu'.ran.out[1].formDescription = SettledConfig.form_description
               /\ menu'.ran.out[1].formFields
                     = (IF SettledConfig.form_fields = Undefined THEN Obj("[]")
                        ELSE SettledConfig.form_fields)
               /\ ~menu'.show]_vars

\* A configuration with enabled false has settled and the menu is still open.
C13_Witness ==
    /\ menu.ran.op = "selected"
    /\ menu.ran.result.state = "fulfilled"
    /\ menu.ran.result.value.json = "object"
    /\ menu.ran.result.value.enabled = False
    /\ menu.ran.out = <<>>
    /\ menu.show

(***************************************************************************)
(* The response view.                                                      *)
(***************************************************************************)
\* typeof v === 'object' && v !== null
IsObject(v) == v.k \in {"object", "array"}

\* The keys of the rows the key-value list shows, top to bottom.
ShownKeys == [i \in 1..Len(view.markup.body) |-> view.markup.body[i][1]]

\* What C14 says of every value but the order of a key-value list.
ClassifiedByShape ==
    LET d == view.data
    IN  /\ view.dataType \in {"empty", "table", "list", "key-value", "raw"}
        /\ d.k \in {"undefined", "null"} => view.dataType = "empty" /\ view.markup = NoMarkup
        /\ (d.k = "array" /\ d.items # <<>> /\ IsObject(d.items[1])) => view.dataType = "table"
        /\ (d.k = "array" /\ d.items # <<>> /\ ~IsObject(d.items[1])) => view.dataType = "list"
        /\ d.k = "object" =>
              /\ view.dataType = "key-value"
              /\ view.markup.kind = "key-value"
              /\ Len(view.markup.body) = Len(d.s)

\* C14: the class of a value follows from its shape alone: null or absent
\* data is 'empty' and renders nothing; a non-empty array is 'table' when
\* its first element is a non-null object and 'list' when it is not; a
\* non-null object that is no array is 'key-value', shown with one row per
\* key in the order the object was given its keys.
C14_ShapeAndGivenOrder ==
    view.created =>
        /\ ClassifiedByShape
        /\ view.data.k = "object" => ShownKeys = view.data.s

\* C14 as the code has it: the rows of a key-value list follow the order in
\* which JavaScript enumerates the object: its integer-like keys first, in
\* ascending numeric order, then its other keys in the order given.
C14_ShapeAndEnumerationOrder ==
    view.created =>
        /\ ClassifiedByShape
        /\ view.data.k = "object" =>
              /\ {ShownKeys[i] : i \in 1..Len(ShownKeys)}
                    = {view.data.s[i] : i \in 1..Len(view.data.s)}
              /\ \A i \in 1..Len(ShownKeys), j \in 1..Len(ShownKeys) :
                    i < j =>
                        LET x == ShownKeys[i]
                            y == ShownKeys[j]
                        IN  IF KeyIndex(x) >= 0 /\ KeyIndex(y) >= 0 THEN KeyIndex(x) < KeyIndex(y)
                            ELSE IF KeyIndex(x) >= 0 \/ KeyIndex(y) >= 0 THEN KeyIndex(x) >= 0
                            ELSE \E a \in 1..Len(view.data.s), b \in 1..Len(view.data.s) :
                                    a < b /\ view.data.s[a] = x /\ view.data.s[b] = y

\* A key-value list of an object given an integer-like key after a named one.
C14_Witness ==
    /\ view.created
    /\ view.data.k = "object"
    /\ Len(view.data.s) = 2
    /\ KeyIndex(view.data.s[1]) < 0
    /\ KeyIndex(view.data.s[2]) >= 0
    /\ view.dataType = "key-value"
    /\ Len(ShownKeys) = 2
    /\ ~view.threw

\* C15: every lone string, number or boolean is 'raw' and is shown as
\* preformatted text, a string as it is and any other value as its JSON
\* text; only absent and null data are 'empty'.
C15_EveryScalarRaw ==
    LET d == view.data
    IN  view.created =>
        /\ d.k \in {"string", "number", "boolean"} =>
              /\ view.dataType = "raw"
              /\ view.markup.kind = "raw"
              /\ view.markup.text
                    = (CASE d.k = "string" -> Concat(d.s)
                         [] d.k = "number" -> ToString(d.n)
                         [] d.k = "boolean" -> IF d.n = 1 THEN "true" ELSE "false")
        /\ view.dataType = "empty" => d.k \in {"undefined", "null"}

\* The first row of a table that has key, 0 when none has.
FirstRowWith(key) ==
    LET rows == view.data.items
        having == {i \in 1..Len(rows) : \E j \in 1..Len(ObjectKeys(rows[i])) :
                                            ObjectKeys(rows[i])[j] = key}
    IN  IF having = {} THEN 0 ELSE CHOOSE i \in having : \A l \in having : i <= l

PositionIn(keys, key) == CHOOSE j \in 1..Len(keys) : keys[j] = key

\* The headers are the union of the rows' keys, once each, in the order in
\* which a scan of the rows first meets them, and every row has a cell per
\* header, a dash where the row has no such key.
TableOfUnion ==
    LET rows == view.data.items
        hs == view.tableHeaders
    IN  /\ view.markup.kind = "table"
        /\ view.markup.head = hs
        /\ {hs[i] : i \in 1..Len(hs)}
              = UNION {{ObjectKeys(rows[i])[j] : j \in 1..Len(ObjectKeys(rows[i]))} :
                          i \in 1..Len(rows)}
        /\ \A i \in 1..Len(hs), j \in 1..Len(hs) :
              i < j =>
                  /\ hs[i] # hs[j]
                  /\ FirstRowWith(hs[i]) <= FirstRowWith(hs[j])
                  /\ FirstRowWith(hs[i]) = FirstRowWith(hs[j]) =>
                        PositionIn(ObjectKeys(rows[FirstRowWith(hs[i])]), hs[i])
                            < PositionIn(ObjectKeys(rows[FirstRowWith(hs[i])]), hs[j])
        /\ Len(view.markup.body) = Len(rows)
        /\ \A i \in 1..Len(rows) :
              /\ Len(view.markup.body[i]) = Len(hs)
              /\ \A j \in 1..Len(hs) :
                    (\A l \in 1..Len(ObjectKeys(rows[i])) : ObjectKeys(rows[i])[l] # hs[j])
                        => view.markup.body[i][j] = "-"

\* C16: for table data the columns are the union of the keys of every row,
\* without duplicates, in first-seen order over the rows in order; every row
\* renders one cell per column, and a cell whose key its row lacks renders
\* as the dash.
C16_UnionHeaders ==
    (view.created /\ view.dataType = "table") => ~view.threw /\ TableOfUnion

\* C17: for every JSON value given as data, classification, header
\* computation and rendering complete without throwing.
C17_NeverThrows == ~view.threw

(***************************************************************************)
(* The slash-command palette.                                              *)
(***************************************************************************)
FilteredCount == Len(palette.filteredItems)

Distance(a, b) == IF a >= b THEN a - b ELSE b - a

\* C18: whatever the sequence of query changes, selectUp, selectDown,
\* hovers and changes of the list, the cursor stays in range: selectedIdx is
\* at least 0, and at most filteredCount - 1 whenever the filtered list is
\* not empty; selectUp and selectDown move it by at most one.
C18_CursorInRange ==
    /\ [](/\ palette.selectedIdx >= 0
          /\ FilteredCount > 0 => palette.selectedIdx <= FilteredCount - 1)
    /\ [][palette'.ran.op \in {"selectUp", "selectDown"}
             => Distance(palette'.selectedIdx, palette.selectedIdx) <= 1]_vars

\* C19: every change of the query, to any value, the empty string
\* included, puts the cursor back on 0.
C19_QueryChangeResets ==
    [][palette'.query # palette.query => palette'.selectedIdx = 0]_vars

\* A letter and its other case are the same letter.
SameLetter(c, d) == c = d \/ {c, d} \in {{"a", "A"}, {"b", "B"}}

\* text has q somewhere in it, letter case apart; no text is the empty text.
ContainsIgnoringCase(field, q) ==
    LET text == IF field.t = "string" THEN field.s ELSE <<>>
    IN  \E i \in 0..(Len(text) - Len(q)) :
            \A j \in 1..Len(q) : SameLetter(text[i + j], q[j])

Occurrences(seq, x) == Cardinality({i \in 1..Len(seq) : seq[i] = x})

\* C20: the filtered list holds exactly the models of the input list whose
\* slash_command or name contains the query, letter case apart, a missing
\* slash_command or name counting as the empty string and the empty query
\* matching every model; a model is in it as often as in the input list.
C20_FilteredExactly ==
    \A w \in WebhookCatalogue :
        Occurrences(palette.filteredItems, w)
            = (IF \/ ContainsIgnoringCase(w.slash_command, palette.query)
                  \/ ContainsIgnoringCase(w.name, palette.query)
               THEN Occurrences(palette.webhooks, w)
               ELSE 0)

\* A query in mixed case was typed; it keeps the model named "ab" and drops
\* another model of the list.
C20_Witness ==
    /\ palette.ran.op = "query"
    /\ palette.query = <<"a", "B">>
    /\ \E i \in 1..FilteredCount : palette.filteredItems[i].name = FStr(<<"a", "b">>)
    /\ FilteredCount < Len(palette.webhooks)

(***************************************************************************)
(* Formatting of the values shown inside tables, lists and key-value       *)
(* blocks.                                                                 *)
(***************************************************************************)
\* The text a value is to be shown as inside a table cell, a list item or
\* a key-value value.
ShownAs(v) ==
    CASE v.k \in {"null", "undefined"} -> "-"
      [] v.k = "boolean" /\ v.n = 1 -> "check mark"
      [] v.k = "boolean" /\ v.n = 0 -> "ballot x"
      [] v.k \in {"object", "array"} -> Stringify(v)
      [] v.k = "number" -> ToString(v.n)
      [] v.k = "string" -> Concat(v.s)

\* C21: every table cell, list item and key-value value is shown as a dash
\* when it is null or undefined, as the check or the cross glyph when it is
\* true or false, as its inline JSON text when it is an object or an array,
\* and as its string coercion otherwise.
C21_FormatValueCases ==
    LET d == view.data
        body == view.markup.body
    IN  (view.created /\ ~view.threw) =>
        /\ view.markup.kind = "table" =>
              \A i \in 1..Len(d.items) : \A j \in 1..Len(view.tableHeaders) :
                  body[i][j] = ShownAs(GetProp(d.items[i], view.tableHeaders[j]))
        /\ view.markup.kind = "list" =>
              /\ Len(body) = Len(d.items)
              /\ \A i \in 1..Len(d.items) : body[i] = ShownAs(d.items[i])
        /\ view.markup.kind = "key-value" =>
              /\ Len(body) = Len(ObjectEntries(d))
              /\ \A i \in 1..Len(body) : body[i][2] = ShownAs(ObjectEntries(d)[i][2])

\* A list of null and an object was shown: a dash, then the object's JSON
\* text.
C21_Witness ==
    /\ view.created
    /\ view.markup.kind = "list"
    /\ Len(view.data.items) = 2
    /\ view.data.items[1] = JNull
    /\ view.data.items[2].k = "object"
    /\ view.data.items[2].s # <<>>
    /\ view.markup.body[1] = "-"
    /\ view.markup.body[2] = Stringify(view.data.items[2])

(***************************************************************************)
(* Requests and retries.                                                   *)
(***************************************************************************)
ClientFunctions ==
    {"getWebhookConfig", "invokeWebhook", "invokeWebhookWithFiles",
     "getWebhookEnabledModels"}

RECURSIVE SchemaFiles(_)
SchemaFiles(i) ==
    IF i > Len(formFields) THEN <<>>
    ELSE (IF formFields[i].type = "file"
          THEN Get(fileData, formFields[i].name, <<>>) ELSE <<>>)
            \o SchemaFiles(i + 1)

\* C23: the files of a multipart submission are the files of every file
\* field, the fields in schema order and each field's files in the order of
\* selection, none left out and none twice (no files when none is selected),
\* and the request has a chat id only when the form was given one.
C23_FilesInSchemaOrder ==
    effects.op = "submit" =>
        \A k \in 1..Len(effects.out) :
            (effects.out[k].kind = "fetch"
                /\ effects.out[k].name = "invokeWebhookWithFiles") =>
                /\ effects.out[k].req.files = SchemaFiles(1)
                /\ effects.out[k].req.chatId
                      = (IF chatId.t = "string" /\ chatId.s # "" THEN chatId ELSE Undefined)

(***************************************************************************)
(* The workflow menu: its list and its loading flag.                       *)
(***************************************************************************)
\* C24: once the menu's list holds the models, no later step writes it,
\* however opening, closing and the arrival of listing responses interleave.
C24_ListWrittenOnce ==
    [][Len(menu.workflows) > 0 => menu'.workflows = menu.workflows]_vars

\* C26: whenever a getWebhookEnabledModels call is awaited, the menu's
\* loading flag is true.
C26_LoadingWhileListing == menu.listing > 0 => menu.loading

\* A step in which a getWebhookEnabledModels call settles.
ListingSettled == menu'.listing = menu.listing - 1 /\ menu'.ran.op = "listed"

\* C27: when a listing call settles the load ends: loading is false; the
\* list is the result when the call resolved; when it rejected the list is
\* empty and the rejection is caught, written to the console and reported
\* to nobody.
C27_LoadSettles ==
    [][ListingSettled =>
          /\ ~menu'.loading
          /\ menu'.ran.result.state = "fulfilled" =>
                /\ menu'.workflows = menu'.ran.result.value.items
                /\ menu'.ran.out = <<>>
          /\ menu'.ran.result.state = "rejected" =>
                /\ menu'.workflows = <<>>
                /\ \A k \in 1..Len(menu'.ran.out) : menu'.ran.out[k].kind = "console.error"]_vars

\* A listing call was rejected: the open menu has an empty list and is not
\* loading.
C27_Witness ==
    /\ menu.ran.op = "listed"
    /\ menu.ran.result.state = "rejected"
    /\ menu.show
    /\ menu.workflows = <<>>
    /\ ~menu.loading
    /\ menu.listing = 0

\* A step in which a getWebhookConfig call settles without a configuration:
\* rejected, or resolved to null.
ConfigFailed ==
    /\ menu'.ran.op = "selected"
    /\ \E k \in 1..Len(menu.selecting) :
          /\ menu'.selecting = RemoveAt(menu.selecting, k)
          /\ menu.selecting[k] = menu'.ran.workflow
    /\ \/ menu'.ran.result.state = "rejected"
       \/ menu'.ran.result.state = "fulfilled" /\ menu'.ran.result.value.json = "null"

\* C30: when the configuration fetch of a selection fails, onWorkflowSelect
\* is not called, the menu stays open or closed as it was, its list is left
\* alone and the failure is caught and written to the console.
C30_ConfigFailureInert ==
    [][ConfigFailed =>
          /\ menu'.show = menu.show
          /\ menu'.workflows = menu.workflows
          /\ menu'.loading = menu.loading
          /\ Len(menu'.ran.out) = 1
          /\ menu'.ran.out[1].kind = "console.error"]_vars

\* The configuration fetch resolved to null; the menu is still open with
\* its list.
C30_Witness ==
    /\ menu.ran.op = "selected"
    /\ menu.ran.result.state = "fulfilled"
    /\ menu.ran.result.value.json = "null"
    /\ menu.show
    /\ Len(menu.workflows) > 0
    /\ Len(menu.ran.out) = 1
    /\ menu.ran.out[1].kind = "console.error"

(***************************************************************************)
(* What a failed or blocked submission leaves, and the loading flag.       *)
(***************************************************************************)
\* C28: the settlement of a submission that did not succeed (success false,
\* a rejected invocation, a response that is no object) leaves the entered
\* values and the selected files as they were; a submit attempt with a
\* required field empty issues no request and changes nothing but the error
\* map.
C28_FailureKeepsEntries ==
    [][/\ (effects'.op = "settle" /\ ~SucceededWith(effects'.result)) =>
              /\ formData' = formData
              /\ fileData' = fileData
              /\ formFields' = formFields
       /\ (effects'.op = "submit" /\ ~AllRequiredPopulated) =>
              /\ Fetches(effects'.out) = <<>>
              /\ UNCHANGED <<show, formFields, chatId, formData, fileData, loading,
                             hasFileFields, inflight>>]_vars

\* A submission was refused with success false while a text and a file are
\* entered in the form shown.
C28_Witness ==
    /\ effects.op = "settle"
    /\ RefusedWith(effects.result)
    /\ show
    /\ \E i \in 1..Len(formData) : formData[i][2].t = "string" /\ formData[i][2].s # <<>>
    /\ \E i \in 1..Len(fileData) : fileData[i][2] # <<>>

\* C29: the loading flag is true exactly while an invocation is awaited: a
\* submit attempt that issues no request leaves it false, and after every
\* settlement it is false again.
C29_LoadingWhileAwaited ==
    /\ loading <=> inflight # <<>>
    /\ (effects.op = "submit" /\ Fetches(effects.out) = <<>>) => ~loading
    /\ effects.op = "settle" => ~loading

\* An invocation resolved to no response object: the form is shown, not
\* loading, its submit control enabled.
C29_Witness ==
    /\ effects.op = "settle"
    /\ effects.result.state = "fulfilled"
    /\ effects.result.value.json = "null"
    /\ show
    /\ ~loading
    /\ SubmitEnabled

(***************************************************************************)
(* The message block.                                                      *)
(***************************************************************************)
\* HTML that runs script when it is inserted in the page.
ExecutesScript(part) ==
    part \in {"<script>0</script>", "<a href=\"javascript:0\">x</a>"}

\* What a part of a message is to be shown as: its Markdown rendered, and
\* nothing of it that executes script.
ShownPart(part) ==
    CASE part = "hi" -> <<"hi">>
      [] part = "*hi*" -> <<"<em>hi</em>">>
      [] part = "[x](javascript:0)" -> <<"<a>x</a>">>
      [] part = "<script>0</script>" -> <<>>
      [] part = "<b>hi</b>" -> <<"<b>hi</b>">>

RECURSIVE ShownMessage(_)
ShownMessage(message) ==
    IF message = <<>> THEN <<>>
    ELSE ShownPart(Head(message)) \o ShownMessage(Tail(message))

\* C25: the message block is rendered only for a message that is not empty,
\* and the HTML inserted in it is the message parsed as Markdown and then
\* sanitised: the Markdown is rendered and no part of the HTML executes
\* script, whether it was written as HTML or produced from Markdown.
C25_MessageSanitised ==
    view.created =>
        /\ view.messageShown => view.message # <<>>
        /\ (view.message # <<>> /\ ~view.threw) => view.messageShown
        /\ view.messageShown =>
              /\ view.messageHtml = ShownMessage(view.message)
              /\ \A i \in 1..Len(view.messageHtml) : ~ExecutesScript(view.messageHtml[i])
        /\ ~view.messageShown => view.messageHtml = <<>>

\* A message of a script element and a Markdown link to a javascript:
\* target was shown as the link's text alone.
C25_Witness ==
    /\ view.created
    /\ view.messageShown
    /\ view.message = <<"<script>0</script>", "[x](javascript:0)">>
    /\ view.messageHtml = <<"<a>x</a>">>

====
